---- MODULE Spec2Model ----
(***************************************************************************)
(* MySQL-compatible calendar arithmetic of util/types/mytime.go: the       *)
(* mysqlTime value, its bridge to the host calendar (GoTime), day numbers, *)
(* week numbers and the signed time difference.                            *)
(*                                                                         *)
(* The library is pure: the state is the value(s) a caller holds, the last *)
(* call it made and what that call returned.  TLC's integers are 32 bits   *)
(* wide, so every 64-bit quantity of the code that does not fit (seconds   *)
(* since an epoch, a difference in microseconds) is kept in mixed radix:   *)
(* days, seconds within the day, microseconds within the second.           *)
(***************************************************************************)
EXTENDS Integers, Sequences, FiniteSets, TLC

VARIABLES
  t,      \* the mysqlTime the caller holds
  t2,     \* the second operand of calcTimeDiff
  mode,   \* the week mode of the last week call
  sign,   \* the sign argument of the last calcTimeDiff call
  op,     \* the last call made
  tm,     \* what the last GoTime call returned (value and error)
  orig,   \* the host-calendar value t was constructed from, if any
  yw,     \* the (year, week) pair the last call returned
  num,    \* the integer the last call returned
  diff    \* what the last calcTimeDiff call returned

vars == <<t, t2, mode, sign, op, tm, orig, yw, num, diff>>

(***************************************************************************)
(* Go integer arithmetic: / truncates toward zero, % takes the sign of the *)
(* dividend; a conversion to an unsigned type keeps the low bits.          *)
(***************************************************************************)
Quot(a, b) == IF a >= 0 THEN a \div b ELSE -((-a) \div b)

Rem(a, b) == a - b * Quot(a, b)

uint8(x) == x % 256

uint16(x) == x % 65536

\* uint32(x) keeps every value in 0..2^32-1; a model integer is below 2^31 and
\* the only callers pass a microsecond count that is never negative.
uint32(x) == x

(***************************************************************************)
(* mysqlTime and its constructor.                                          *)
(***************************************************************************)
mysqlTime(y, mo, d, h, mi, s, us) ==
  [year |-> y, month |-> mo, day |-> d, hour |-> h, minute |-> mi,
   second |-> s, microsecond |-> us]

newMysqlTimeYear8(year, month, day, hour, minute, second, microsecond) ==
  mysqlTime(uint8(year), uint8(month), uint8(day), uint8(hour),
            uint8(minute), uint8(second), uint32(microsecond))

newMysqlTime(year, month, day, hour, minute, second, microsecond) ==
  mysqlTime(uint16(year), uint8(month), uint8(day), uint8(hour),
            uint8(minute), uint8(second), uint32(microsecond))

(***************************************************************************)
(* The host calendar (package time), as GoTime uses it.                    *)
(* A Time is kept as days since the absolute epoch, the second within the  *)
(* day and the microsecond within the second.  The absolute epoch is 1     *)
(* January of a year congruent to 1 modulo 400; the model takes the last   *)
(* such year below every year a mysqlTime can normalise to.                *)
(***************************************************************************)
absoluteZeroYear == -399

daysPer400Years == 146097

daysPer100Years == 36524

daysPer4Years == 1461

daysBefore == <<0, 31, 59, 90, 120, 151, 181, 212, 243, 273, 304, 334, 365>>

isLeap(year) ==
  Rem(year, 4) = 0 /\ (Rem(year, 100) # 0 \/ Rem(year, 400) = 0)

\* norm returns nhi, nlo such that hi * base + lo = nhi * base + nlo, 0 <= nlo < base.
norm(hi, lo, base) ==
  LET n1 == IF lo < 0 THEN Quot(-lo - 1, base) + 1 ELSE 0
      hi1 == hi - n1
      lo1 == lo + n1 * base
      n2 == IF lo1 >= base THEN Quot(lo1, base) ELSE 0
  IN <<hi1 + n2, lo1 - n2 * base>>

daysSinceEpoch(year) ==
  LET y0 == year - absoluteZeroYear
      n400 == y0 \div 400
      y1 == y0 - 400 * n400
      n100 == y1 \div 100
      y2 == y1 - 100 * n100
      n4 == y2 \div 4
      y3 == y2 - 4 * n4
  IN daysPer400Years * n400 + daysPer100Years * n100 + daysPer4Years * n4 + 365 * y3

\* time.Date in a zone without transitions.  The nanosecond argument is
\* Microsecond()*1000, so its carry into the seconds is microsecond / 10^6.
Date(year, month, day, hour, min, sec, usec) ==
  LET ym == norm(year, month - 1, 12)
      y == ym[1]
      m == ym[2] + 1
      sn == norm(sec, usec, 1000000)
      ms == norm(min, sn[1], 60)
      hm == norm(hour, ms[1], 60)
      dh == norm(day, hm[1], 24)
      d == daysSinceEpoch(y) + daysBefore[m]
             + (IF isLeap(y) /\ m >= 3 THEN 1 ELSE 0) + (dh[1] - 1)
  IN [days |-> d,
      sec |-> dh[2] * 3600 + hm[2] * 60 + ms[2],
      usec |-> sn[2]]

\* absDate, first half: the year and the day of the year (from 0) of a day count.
absYear(days) ==
  LET n400 == days \div daysPer400Years
      d1 == days - daysPer400Years * n400
      q100 == d1 \div daysPer100Years
      n100 == q100 - (q100 \div 4)
      d2 == d1 - daysPer100Years * n100
      n4 == d2 \div daysPer4Years
      d3 == d2 - daysPer4Years * n4
      q1 == d3 \div 365
      n1 == q1 - (q1 \div 4)
  IN [year |-> 400 * n400 + 100 * n100 + 4 * n4 + n1 + absoluteZeroYear,
      yday |-> d3 - 365 * n1]

\* absDate, second half: the month and the day of the month of a day of the year.
absMonthDay(year, yday) ==
  LET day0 == IF isLeap(year) /\ yday > 31 + 29 - 1 THEN yday - 1 ELSE yday
      m0 == day0 \div 31
      end == daysBefore[m0 + 2]
  IN IF isLeap(year) /\ yday = 31 + 29 - 1
       THEN [year |-> year, month |-> 2, day |-> 29, yday |-> yday]
       ELSE IF day0 >= end
              THEN [year |-> year, month |-> m0 + 2, day |-> day0 - end + 1, yday |-> yday]
              ELSE [year |-> year, month |-> m0 + 1,
                    day |-> day0 - daysBefore[m0 + 1] + 1, yday |-> yday]

absDateOf(r) == absMonthDay(r.year, r.yday)

absDate(days) == absDateOf(absYear(days))

\* Time.Weekday: 0 is Sunday; day 0 of the absolute epoch is a Monday.
absWeekday(days) == (days + 1) % 7

\* Time.ISOWeek: the year and week of the Thursday of the date's week.
isoWeekOf(r) == <<r.year, (r.yday \div 7) + 1>>

isoOffset(wd) == IF 4 - wd = 4 THEN -3 ELSE 4 - wd

GoISOWeek(days) == isoWeekOf(absYear(days + isoOffset(absWeekday(days))))

\* Time.Date, Time.Clock and Time.Nanosecond / 1000 of the value g, whose date is a.
timeFields(g, a) ==
  [year |-> a.year, month |-> a.month, day |-> a.day,
   hour |-> g.sec \div 3600, minute |-> (g.sec % 3600) \div 60, second |-> g.sec % 60,
   microsecond |-> g.usec, days |-> g.days, yday |-> a.yday, err |-> FALSE]

timeOf(g) == timeFields(g, absDate(g.days))

(***************************************************************************)
(* mysqlTime.GoTime: build the host value, decompose it, and report an     *)
(* error when any field differs from the stored one.                       *)
(***************************************************************************)
goTimeCheckAllDiffer(x, f) ==
  [f EXCEPT !.err = (f.year # x.year /\ f.month # x.month /\ f.day # x.day
                     /\ f.hour # x.hour /\ f.minute # x.minute /\ f.second # x.second
                     /\ f.microsecond # x.microsecond)]

goTimeCheck(x, f) ==
  [f EXCEPT !.err = (f.year # x.year \/ f.month # x.month \/ f.day # x.day
                     \/ f.hour # x.hour \/ f.minute # x.minute \/ f.second # x.second
                     \/ f.microsecond # x.microsecond)]

GoTime(x) ==
  goTimeCheck(x, timeOf(Date(x.year, x.month, x.day, x.hour, x.minute, x.second,
                             x.microsecond)))

weekdayOf(t1) == IF t1.err THEN 0 ELSE absWeekday(t1.days)

Weekday(x) == weekdayOf(GoTime(x))

yearDayIgnoringError(t1) == t1.yday + 1

yearDayOf(t1) == IF t1.err THEN 0 ELSE t1.yday + 1

YearDay(x) == yearDayOf(GoTime(x))

isoWeekOfTime(t1) == IF t1.err THEN <<0, 0>> ELSE GoISOWeek(t1.days)

ISOWeek(x) == isoWeekOfTime(GoTime(x))

(***************************************************************************)
(* Day numbers.                                                            *)
(***************************************************************************)
calcDaynrFloorDiv(year, month, day) ==
  IF year = 0 /\ month = 0 THEN 0
  ELSE LET delsum == 365 * year + 31 * (month - 1) + day
                       - (IF month <= 2 THEN 0 ELSE (month * 4 + 23) \div 10)
           y == IF month <= 2 THEN year - 1 ELSE year
           temp == (((y \div 100) + 1) * 3) \div 4
       IN delsum + (y \div 4) - temp

calcDaynr(year, month, day) ==
  IF year = 0 /\ month = 0 THEN 0
  ELSE LET delsum == 365 * year + 31 * (month - 1) + day
                       - (IF month <= 2 THEN 0 ELSE Quot(month * 4 + 23, 10))
           y == IF month <= 2 THEN year - 1 ELSE year
           temp == Quot((Quot(y, 100) + 1) * 3, 4)
       IN delsum + Quot(y, 4) - temp

calcDaysInYearNoLeap(year) == 365

calcDaysInYear(year) ==
  IF year % 4 = 0 /\ (Rem(year, 100) # 0 \/ (Rem(year, 400) = 0 /\ year # 0))
    THEN 366 ELSE 365

calcWeekdayNoSunday(daynr, sundayFirstDayOfWeek) == Rem(daynr + 5, 7)

calcWeekday(daynr, sundayFirstDayOfWeek) ==
  Rem(daynr + 5 + (IF sundayFirstDayOfWeek THEN 1 ELSE 0), 7)

(***************************************************************************)
(* Week numbering.                                                         *)
(***************************************************************************)
weekBehaviourMondayFirst == 1

weekBehaviourYear == 2

weekBehaviourFirstWeekday == 4

\* v.test(flag), for a flag that is one bit.
test(v, flag) == (v \div flag) % 2 = 1

\* v | flag and v ^ flag, for a flag that is one bit.
BitOr(v, flag) == IF test(v, flag) THEN v ELSE v + flag

BitXor(v, flag) == IF test(v, flag) THEN v - flag ELSE v + flag

weekMode(m) ==
  LET weekFormat == m % 8
  IN IF ~test(weekFormat, weekBehaviourMondayFirst)
       THEN BitXor(weekFormat, weekBehaviourFirstWeekday)
       ELSE weekFormat

calcWeek(x, wb) ==
  LET daynr == calcDaynr(x.year, x.month, x.day)
      firstDaynr0 == calcDaynr(x.year, 1, 1)
      mondayFirst == test(wb, weekBehaviourMondayFirst)
      weekYear0 == test(wb, weekBehaviourYear)
      firstWeekday == test(wb, weekBehaviourFirstWeekday)
      weekday0 == calcWeekday(firstDaynr0, ~mondayFirst)
      inFirstWeek == x.month = 1 /\ x.day <= 7 - weekday0
      weekZero == inFirstWeek /\ ~weekYear0
                    /\ ((firstWeekday /\ weekday0 # 0) \/ (~firstWeekday /\ weekday0 >= 4))
      rollback == inFirstWeek /\ ~weekZero
      weekYear == rollback \/ weekYear0
      year == IF rollback THEN x.year - 1 ELSE x.year
      firstDaynr == IF rollback THEN firstDaynr0 - calcDaysInYear(year) ELSE firstDaynr0
      weekday == IF rollback
                   THEN Rem(weekday0 + 53 * 7 - calcDaysInYear(year), 7)
                   ELSE weekday0
      days == IF (firstWeekday /\ weekday # 0) \/ (~firstWeekday /\ weekday >= 4)
                THEN daynr - (firstDaynr + 7 - weekday)
                ELSE daynr - (firstDaynr - weekday)
      weekdayNext == Rem(weekday + calcDaysInYear(year), 7)
  IN IF weekZero THEN <<x.year, 0>>
     ELSE IF weekYear /\ days >= 52 * 7
               /\ ((~firstWeekday /\ weekdayNext < 4) \/ (firstWeekday /\ weekdayNext = 0))
            THEN <<year + 1, 1>>
            ELSE <<year, Quot(days, 7) + 1>>

YearWeekNoYearFlag(x, m) ==
  IF x.month = 0 \/ x.day = 0 THEN <<0, 0>>
  ELSE calcWeek(x, weekMode(m))

YearWeek(x, m) ==
  IF x.month = 0 \/ x.day = 0 THEN <<0, 0>>
  ELSE calcWeek(x, BitOr(weekMode(m), weekBehaviourYear))

WeekWithYearFlag(x, m) ==
  IF x.month = 0 \/ x.day = 0 THEN <<0, 0>>
  ELSE calcWeek(x, BitOr(weekMode(m), weekBehaviourYear))

\* Week returns the week of the pair; the pair is kept whole so that the year
\* calcWeek computed can be observed.
Week(x, m) ==
  IF x.month = 0 \/ x.day = 0 THEN <<0, 0>>
  ELSE calcWeek(x, weekMode(m))

(***************************************************************************)
(* Integer encodings.                                                      *)
(***************************************************************************)
dateToUint64(x) == x.year * 10000 + x.month * 100 + x.day

(***************************************************************************)
(* calcTimeDiff.  The 64-bit tmp is kept as [d, s, u], standing for        *)
(* (d * 86400 + s) * 1000000 + u; no operand a mysqlTime can hold makes it *)
(* leave 64 bits.  The seconds returned are days * 86400 + secs.           *)
(***************************************************************************)
SECONDS_IN_24H == 86400

\* The same value with 0 <= u < 1000000 and 0 <= s < 86400.
carrySeconds(d, s, u) ==
  [d |-> d + (s \div SECONDS_IN_24H), s |-> s % SECONDS_IN_24H, u |-> u]

wide(d, s, u) == carrySeconds(d, s + (u \div 1000000), u % 1000000)

timeOfDaySeconds(x) == x.hour * 3600 + x.minute * 60 + x.second

\* tmp as line 131..137 computes it.
tmpUnsignedMicro(t1, tt2, sg) ==
  wide(calcDaynr(t1.year, t1.month, t1.day) - sg * calcDaynr(tt2.year, tt2.month, tt2.day),
       timeOfDaySeconds(t1) - sg * timeOfDaySeconds(tt2),
       t1.microsecond - tt2.microsecond)

tmpOf(t1, tt2, sg) ==
  wide(calcDaynr(t1.year, t1.month, t1.day) - sg * calcDaynr(tt2.year, tt2.month, tt2.day),
       timeOfDaySeconds(t1) - sg * timeOfDaySeconds(tt2),
       t1.microsecond - sg * tt2.microsecond)

\* neg, tmp = -tmp, tmp / 1000000 and tmp % 1000000 (lines 139..146).
splitNegOnZero(w, m) ==
  IF w.d < 0 \/ (w.d = 0 /\ w.s = 0 /\ w.u = 0)
    THEN [days |-> m.d, secs |-> m.s, microseconds |-> m.u, neg |-> TRUE]
    ELSE [days |-> w.d, secs |-> w.s, microseconds |-> w.u, neg |-> FALSE]

split(w, m) ==
  IF w.d < 0
    THEN [days |-> m.d, secs |-> m.s, microseconds |-> m.u, neg |-> TRUE]
    ELSE [days |-> w.d, secs |-> w.s, microseconds |-> w.u, neg |-> FALSE]

splitTmp(w) == split(w, wide(-w.d, -w.s, -w.u))

calcTimeDiff(t1, tt2, sg) == splitTmp(tmpOf(t1, tt2, sg))

(***************************************************************************)
(* Values shared by the specifications.                                    *)
(***************************************************************************)
MaxYear == 9999

MaxMode == 7

Modes == 0 .. MaxMode

NoTime == [year |-> 0, month |-> 0, day |-> 0, hour |-> 0, minute |-> 0,
           second |-> 0, microsecond |-> 0, days |-> 0, yday |-> 0, err |-> FALSE]

NoDiff == [days |-> 0, secs |-> 0, microseconds |-> 0, neg |-> FALSE]

\* The calendar day after x, by the host calendar's own normalisation.
dateOf(g) == mysqlTime(g.year, g.month, g.day, 0, 0, 0, 0)

NextDate(x) == dateOf(GoTime(mysqlTime(x.year, x.month, x.day + 1, 0, 0, 0, 0)))

(***************************************************************************)
(* SpecWeek: a caller walks the calendar one day at a time and asks for    *)
(* the day number and the week numbers of each date.                       *)
(***************************************************************************)
YearSpan == 5

StartYears == {0, 1897, 1997, 2008, 2016, 9995}

InWindow(y) == y <= MaxYear /\ \E s \in StartYears : s <= y /\ y < s + YearSpan

InitWeek ==
  /\ \E s \in StartYears : t = mysqlTime(s, 1, 1, 0, 0, 0, 0)
  /\ t2 = mysqlTime(0, 0, 0, 0, 0, 0, 0)
  /\ mode = 0
  /\ sign = 1
  /\ op = "new"
  /\ tm = NoTime
  /\ orig = NoTime
  /\ yw = <<0, 0>>
  /\ num = 0
  /\ diff = NoDiff

NextDay ==
  /\ t' = NextDate(t)
  /\ InWindow(t'.year)
  /\ op' = "new"
  /\ mode' = 0
  /\ yw' = <<0, 0>>
  /\ num' = 0
  /\ UNCHANGED <<t2, sign, tm, orig, diff>>

CallCalcDaynr ==
  /\ op' = "calcDaynr"
  /\ num' = calcDaynr(t.year, t.month, t.day)
  /\ mode' = 0
  /\ yw' = <<0, 0>>
  /\ UNCHANGED <<t, t2, sign, tm, orig, diff>>

CallYearWeek ==
  /\ \E m \in Modes :
       /\ mode' = m
       /\ yw' = YearWeek(t, m)
  /\ op' = "YearWeek"
  /\ num' = 0
  /\ UNCHANGED <<t, t2, sign, tm, orig, diff>>

CallWeek ==
  /\ \E m \in Modes :
       /\ mode' = m
       /\ yw' = Week(t, m)
       /\ num' = Week(t, m)[2]
  /\ op' = "Week"
  /\ UNCHANGED <<t, t2, sign, tm, orig, diff>>

CallISOWeek ==
  /\ op' = "ISOWeek"
  /\ yw' = ISOWeek(t)
  /\ mode' = 0
  /\ num' = 0
  /\ UNCHANGED <<t, t2, sign, tm, orig, diff>>

NextWeek == NextDay \/ CallCalcDaynr \/ CallYearWeek \/ CallWeek \/ CallISOWeek

SpecWeek == InitWeek /\ [][NextWeek]_vars

(***************************************************************************)
(* SpecGo: a caller holds any mysqlTime the constructor can build, valid   *)
(* or not, converts it to the host calendar, rebuilds a mysqlTime from the *)
(* host value, and asks the host-backed and the week queries.              *)
(***************************************************************************)
MaxMonthIn == 13

MaxDayIn == 32

GoYears == {0, 1900, 2000, 2016, 9999, 65535}

GoMonths == 0 .. MaxMonthIn

GoDays == {0, 1} \cup (27 .. MaxDayIn)

\* hour, minute, second, microsecond: two valid times and one excess per field.
GoClocks == {<<0, 0, 0, 0>>, <<23, 59, 59, 999999>>, <<24, 0, 0, 0>>,
             <<0, 60, 0, 0>>, <<0, 0, 60, 0>>, <<0, 0, 0, 1000000>>}

InitGo ==
  /\ \E y \in GoYears, mo \in GoMonths, d \in GoDays, c \in GoClocks :
       t = newMysqlTime(y, mo, d, c[1], c[2], c[3], c[4])
  /\ t2 = mysqlTime(0, 0, 0, 0, 0, 0, 0)
  /\ mode = 0
  /\ sign = 1
  /\ op = "new"
  /\ tm = NoTime
  /\ orig = NoTime
  /\ yw = <<0, 0>>
  /\ num = 0
  /\ diff = NoDiff

CallGoTime ==
  /\ op' = "GoTime"
  /\ tm' = GoTime(t)
  /\ mode' = 0
  /\ yw' = <<0, 0>>
  /\ num' = 0
  /\ UNCHANGED <<t, t2, sign, orig, diff>>

\* newMysqlTime on the fields of the host value the last GoTime call returned.
CallNewMysqlTime ==
  /\ op = "GoTime"
  /\ t' = newMysqlTime(tm.year, tm.month, tm.day, tm.hour, tm.minute, tm.second,
                        tm.microsecond)
  /\ orig' = [tm EXCEPT !.err = FALSE]
  /\ op' = "newMysqlTime"
  /\ tm' = NoTime
  /\ UNCHANGED <<t2, mode, sign, yw, num, diff>>

CallWeekday ==
  /\ op' = "Weekday"
  /\ num' = Weekday(t)
  /\ mode' = 0
  /\ yw' = <<0, 0>>
  /\ tm' = NoTime
  /\ UNCHANGED <<t, t2, sign, orig, diff>>

CallYearDay ==
  /\ op' = "YearDay"
  /\ num' = YearDay(t)
  /\ mode' = 0
  /\ yw' = <<0, 0>>
  /\ tm' = NoTime
  /\ UNCHANGED <<t, t2, sign, orig, diff>>

CallISOWeekGo ==
  /\ op' = "ISOWeek"
  /\ yw' = ISOWeek(t)
  /\ mode' = 0
  /\ num' = 0
  /\ tm' = NoTime
  /\ UNCHANGED <<t, t2, sign, orig, diff>>

CallYearWeekGo ==
  /\ \E m \in Modes :
       /\ mode' = m
       /\ yw' = YearWeek(t, m)
  /\ op' = "YearWeek"
  /\ num' = 0
  /\ tm' = NoTime
  /\ UNCHANGED <<t, t2, sign, orig, diff>>

CallWeekGo ==
  /\ \E m \in Modes :
       /\ mode' = m
       /\ yw' = Week(t, m)
       /\ num' = Week(t, m)[2]
  /\ op' = "Week"
  /\ tm' = NoTime
  /\ UNCHANGED <<t, t2, sign, orig, diff>>

CallDateToUint64 ==
  /\ op' = "dateToUint64"
  /\ num' = dateToUint64(t)
  /\ mode' = 0
  /\ yw' = <<0, 0>>
  /\ tm' = NoTime
  /\ UNCHANGED <<t, t2, sign, orig, diff>>

NextGo ==
  \/ CallGoTime \/ CallNewMysqlTime \/ CallWeekday \/ CallYearDay \/ CallISOWeekGo
  \/ CallYearWeekGo \/ CallWeekGo \/ CallDateToUint64

SpecGo == InitGo /\ [][NextGo]_vars

(***************************************************************************)
(* SpecDiff: a caller holds two values and asks for their difference.      *)
(***************************************************************************)
DiffDates == {<<0, 0, 0>>, <<0, 1, 1>>, <<1999, 12, 31>>, <<2000, 1, 1>>,
              <<2000, 2, 29>>, <<2000, 3, 1>>, <<9999, 12, 31>>, <<65535, 255, 255>>}

DiffClocks == {<<0, 0, 0, 0>>, <<0, 0, 0, 1>>, <<12, 30, 30, 500000>>,
               <<23, 59, 59, 999999>>, <<255, 255, 255, 1999999>>}

DiffValues ==
  {newMysqlTime(d[1], d[2], d[3], c[1], c[2], c[3], c[4]) : d \in DiffDates, c \in DiffClocks}

Signs == {1, -1}

InitDiff ==
  /\ t \in DiffValues
  /\ t2 \in DiffValues
  /\ mode = 0
  /\ sign = 1
  /\ op = "new"
  /\ tm = NoTime
  /\ orig = NoTime
  /\ yw = <<0, 0>>
  /\ num = 0
  /\ diff = NoDiff

CallCalcTimeDiff ==
  /\ \E sg \in Signs :
       /\ sign' = sg
       /\ diff' = calcTimeDiff(t, t2, sg)
  /\ op' = "calcTimeDiff"
  /\ UNCHANGED <<t, t2, mode, tm, orig, yw, num>>

NextDiff == CallCalcTimeDiff

SpecDiff == InitDiff /\ [][NextDiff]_vars

(***************************************************************************)
(* Claims checked under SpecWeek.                                          *)
(***************************************************************************)
LeapDayOfYearZero == mysqlTime(0, 2, 29, 0, 0, 0, 0)

NextDaynr == calcDaynr(NextDate(t).year, NextDate(t).month, NextDate(t).day)

\* C1 as stated: over the valid dates of years 0..9999 the day number grows
\* with every calendar day, and by exactly 1 inside a month.
C1_DaynrStrictlyIncreasing ==
  (op = "calcDaynr" /\ NextDate(t).year <= MaxYear) =>
     /\ NextDaynr > num
     /\ (NextDate(t).month = t.month => NextDaynr - num = 1)

\* C1 amended: the same, except that 0000-02-29, a date of the host calendar,
\* and 0000-03-01 both have day number 60 (year 0 has 365 day numbers).
C1_DaynrIncreasingButLeapDayZero ==
  (op = "calcDaynr" /\ NextDate(t).year <= MaxYear) =>
     IF t = LeapDayOfYearZero
       THEN num = 60 /\ NextDaynr = 60
       ELSE /\ NextDaynr > num
            /\ (NextDate(t).month = t.month => NextDaynr - num = 1)

C1_Witness ==
  /\ op = "calcDaynr"
  /\ t.year = 1900 /\ t.month = 2 /\ t.day = 28
  /\ NextDate(t).month = 3
  /\ NextDaynr = num + 1

NewYear2000 == mysqlTime(2000, 1, 1, 0, 0, 0, 0)

\* C6: 2000-01-01 is a Saturday; calcWeek with weekMode(0) gives week 0 of 2000,
\* with weekMode(3) it rolls back to the previous year, so the two years differ.
C6_NewYear2000 ==
  (op = "Week" /\ t = NewYear2000) =>
     /\ Weekday(t) = 6
     /\ (mode = 0 => yw = <<2000, 0>>)
     /\ (mode = 3 => yw[1] = t.year - 1 /\ yw[1] # calcWeek(t, weekMode(0))[1])

C6_Witness ==
  op = "Week" /\ t = NewYear2000 /\ mode = 3 /\ yw = <<1999, 52>>

\* C8: for a real date of years 1..9999, Week is in 0..53 and in 1..53 when the
\* mode has the year flag; YearWeek gives a week in 1..53 of the year before,
\* the same year or the year after.
C8_WeekRanges ==
  /\ (op = "Week" /\ t.year >= 1 /\ t.year <= MaxYear) =>
        /\ num \in 0 .. 53
        /\ (test(mode % 8, weekBehaviourYear) => num >= 1)
  /\ (op = "YearWeek" /\ t.year >= 1 /\ t.year <= MaxYear) =>
        /\ yw[2] \in 1 .. 53
        /\ yw[1] \in {t.year - 1, t.year, t.year + 1}

C8_Witness ==
  op = "YearWeek" /\ t.year >= 1 /\ yw[2] = 53 /\ yw[1] = t.year - 1

FirstDayOfWeek(m) == IF test(m % 8, weekBehaviourMondayFirst) THEN 1 ELSE 0

ZeroDate(x) == x.month = 0 \/ x.day = 0

\* C2: for a value with month 0 or day 0, whatever its other fields and the
\* mode, YearWeek and ISOWeek return (0, 0) and Week, Weekday and YearDay 0.
C2_ZeroDateSentinels ==
  ZeroDate(t) =>
     /\ (op = "YearWeek" => yw = <<0, 0>>)
     /\ (op = "Week" => num = 0)
     /\ (op = "Weekday" => num = 0)
     /\ (op = "YearDay" => num = 0)
     /\ (op = "ISOWeek" => yw = <<0, 0>>)

C2_Witness ==
  op = "YearDay" /\ t.day = 0 /\ t.month = 3 /\ t.hour = 23 /\ num = 0

\* The length of a month of the Gregorian calendar.
DaysInMonth(y, m) ==
  IF m = 2 THEN (IF y % 4 = 0 /\ (y % 100 # 0 \/ y % 400 = 0) THEN 29 ELSE 28)
  ELSE IF m \in {4, 6, 9, 11} THEN 30 ELSE 31

RealInstant(x) ==
  /\ x.month \in 1 .. 12
  /\ x.day >= 1 /\ x.day <= DaysInMonth(x.year, x.month)
  /\ x.hour <= 23 /\ x.minute <= 59 /\ x.second <= 59
  /\ x.microsecond <= 999999

February30 == mysqlTime(2016, 2, 30, 0, 0, 0, 0)

\* C3: GoTime returns no error exactly when the stored fields are a real
\* calendar instant, and otherwise the error with the normalised value;
\* 2016-02-30 fails while dateToUint64 of it is 20160230.
C3_GoTimeErrorIffNotRealInstant ==
  /\ op = "GoTime" =>
        /\ tm.err <=> ~RealInstant(t)
        /\ RealInstant(tm)
        /\ (t = February30 => tm.err /\ tm.month = 3 /\ tm.day = 1)
  /\ (op = "dateToUint64" /\ t = February30) => num = 20160230

C3_Witness ==
  op = "GoTime" /\ t = February30 /\ tm.err /\ dateToUint64(t) = 20160230

SameFields(a, b) ==
  /\ a.year = b.year /\ a.month = b.month /\ a.day = b.day
  /\ a.hour = b.hour /\ a.minute = b.minute /\ a.second = b.second
  /\ a.microsecond = b.microsecond

IsZero(d, s, u) ==
  /\ u % 1000000 = 0
  /\ (s + (u \div 1000000)) % 86400 = 0
  /\ d + ((s + (u \div 1000000)) \div 86400) = 0

\* C5 as stated: with sign 1, swapping the operands keeps the seconds and the
\* microseconds and flips neg.
C5_AntiSymmetric ==
  (op = "calcTimeDiff" /\ sign = 1) =>
     /\ calcTimeDiff(t2, t, 1).days = diff.days
     /\ calcTimeDiff(t2, t, 1).secs = diff.secs
     /\ calcTimeDiff(t2, t, 1).microseconds = diff.microseconds
     /\ calcTimeDiff(t2, t, 1).neg = ~diff.neg

\* C5 amended: the magnitude is kept; neg flips unless the difference is zero,
\* and then neg is false both ways.
C5_AntiSymmetricUnlessZero ==
  (op = "calcTimeDiff" /\ sign = 1) =>
     /\ calcTimeDiff(t2, t, 1).days = diff.days
     /\ calcTimeDiff(t2, t, 1).secs = diff.secs
     /\ calcTimeDiff(t2, t, 1).microseconds = diff.microseconds
     /\ IF diff.days = 0 /\ diff.secs = 0 /\ diff.microseconds = 0
          THEN ~diff.neg /\ ~calcTimeDiff(t2, t, 1).neg
          ELSE calcTimeDiff(t2, t, 1).neg = ~diff.neg

C5_Witness ==
  /\ op = "calcTimeDiff" /\ sign = 1
  /\ t.year = 1999 /\ t2.year = 2000 /\ t2.day = 29
  /\ diff.neg /\ ~calcTimeDiff(t2, t, 1).neg
  /\ diff.days = calcTimeDiff(t2, t, 1).days /\ diff.days > 0

\* C7: with D = (calcDaynr(a) - sign*calcDaynr(b)) * 86400 * 10^6
\* + (timeOfDaySeconds(a) - sign*timeOfDaySeconds(b)) * 10^6
\* + a.Microsecond - sign*b.Microsecond, calcTimeDiff returns neg exactly when
\* D < 0, seconds >= 0, 0 <= microseconds <= 999999 and
\* seconds * 10^6 + microseconds = |D|.
C7_DiffIsSignedMagnitude ==
  op = "calcTimeDiff" =>
     LET dd == calcDaynr(t.year, t.month, t.day) - sign * calcDaynr(t2.year, t2.month, t2.day)
         ds == (t.hour * 3600 + t.minute * 60 + t.second)
                 - sign * (t2.hour * 3600 + t2.minute * 60 + t2.second)
         du == t.microsecond - sign * t2.microsecond
     IN /\ diff.days >= 0
        /\ diff.secs \in 0 .. 86399
        /\ diff.microseconds \in 0 .. 999999
        /\ IF diff.neg
             THEN /\ IsZero(dd + diff.days, ds + diff.secs, du + diff.microseconds)
                  /\ ~(diff.days = 0 /\ diff.secs = 0 /\ diff.microseconds = 0)
             ELSE IsZero(dd - diff.days, ds - diff.secs, du - diff.microseconds)

C7_Witness ==
  /\ op = "calcTimeDiff" /\ sign = -1
  /\ t.year = 2000 /\ t.month = 3 /\ t.microsecond = 999999
  /\ t2.year = 9999 /\ t2.microsecond = 1
  /\ ~diff.neg /\ diff.microseconds = 0 /\ diff.days > 3652424

====
